---- MODULE Spec2Model ----
(***************************************************************************)
(* Model of sat_utils.py: the literal model, the extension-variable        *)
(* counter, the symbolic <-> numeric translator, the two DNF -> CNF         *)
(* converters, the cardinality builder Q and the lazy solve facade.        *)
(*                                                                         *)
(* A Python str is a sequence of one-character strings, so that slicing,   *)
(* startswith/endswith and f-string formatting are computed, not assumed.  *)
(***************************************************************************)
EXTENDS Integers, Sequences, FiniteSets, TLC

VARIABLES
    groups,           \* argument of from_dnf_with_de_morgan / from_dnf
    cnf,              \* running clause set of from_dnf_with_de_morgan
    group_index,      \* number of groups folded in so far
    pc,               \* position of from_dnf_with_de_morgan
    exact,            \* what from_dnf_with_de_morgan returned or raised
    tseytin,          \* what from_dnf returned
    exact_models,     \* solve_all(from_dnf_with_de_morgan(groups))
    tseytin_models,   \* solve_all(from_dnf(groups))
    _NEXT_EXT_INDEX,  \* the module-level counter
    minted,           \* every name ext_var has returned, in order
    op,               \* the operation called last
    calls,            \* number of calls made so far
    thread_pc,        \* per thread: position inside ext_var
    ext_index,        \* per thread: the local ext_index of ext_var
    loaded,           \* per thread: the value read by _NEXT_EXT_INDEX += 1
    elements,         \* Q(elements)
    n,                \* right-hand side of the comparison with Q(elements)
    q_op,             \* the cardinality operation applied
    q_result,         \* what it returned or raised
    symbolic_cnf,     \* argument of translate / itersolve
    uniquify,         \* argument of translate
    translation,      \* what translate returned or raised
    include_neg,      \* argument of itersolve
    consumer,         \* who pulls from the generator
    gen_pc,           \* position of the generator itersolve
    backend_left,     \* solutions pycosat.itersolve has not produced yet
    backend_log,      \* what the backend answered to the requests of the first pull
    pulls,            \* number of next() calls on the generator
    requests,         \* number of next() calls on the backend iterator
    translations,     \* number of translate calls
    yielded,          \* number of models the generator has yielded
    first_yield,      \* the first model the generator yielded
    outcome,          \* what the consumer returned or raised
    neg_element,      \* argument of neg
    negations,        \* what neg(element), neg(neg(element)), ... returned
    previous          \* what an earlier call of from_dnf_with_de_morgan(groups) returned or raised

dnfVars == <<groups, cnf, group_index, pc, exact, tseytin, exact_models, tseytin_models>>
mintVars == <<_NEXT_EXT_INDEX, minted>>
seqVars == <<op, calls>>
threadVars == <<thread_pc, ext_index, loaded>>
cardVars == <<elements, n, q_op, q_result>>
transVars == <<symbolic_cnf, uniquify, translation>>
solveVars == <<include_neg, consumer, gen_pc, backend_left, backend_log, pulls, requests,
               translations, yielded, first_yield, outcome>>
negVars == <<neg_element, negations>>
againVars == <<previous>>
vars == <<dnfVars, mintVars, seqVars, threadVars, cardVars, transVars, solveVars, negVars,
          againVars>>

----------------------------------------------------------------------------
\* Bounds

NumFacts == 2
MaxGroups == 2
MaxLiterals == 3

----------------------------------------------------------------------------
\* Literal model

_EXT_SUFFIX == <<"_", "_", "_">>

FactNames == <<"A", "B", "C", "D", "E">>

Range(s) == {s[i] : i \in 1..Len(s)}

startswith(s, prefix) ==
    Len(s) >= Len(prefix) /\ SubSeq(s, 1, Len(prefix)) = prefix

endswith(s, suffix) ==
    Len(s) >= Len(suffix) /\ SubSeq(s, Len(s) - Len(suffix) + 1, Len(s)) = suffix

is_ext_var(element) == endswith(element, _EXT_SUFFIX)

Digits == <<"0", "1", "2", "3", "4", "5", "6", "7", "8", "9">>

RECURSIVE str(_)
str(i) == IF i < 10 THEN <<Digits[i + 1]>>
          ELSE str(i \div 10) \o <<Digits[(i % 10) + 1]>>

ext_var_name(index) == str(index) \o _EXT_SUFFIX

neg(element) ==
    IF startswith(element, <<"~">>) THEN SubSeq(element, 2, Len(element))
    ELSE <<"~">> \o element


----------------------------------------------------------------------------
\* Python containers

\* A dict is the sequence of its <<key, value>> items in insertion order;
\* assigning to a key that is present keeps the key's position.
dict_has(d, key) == \E i \in 1..Len(d) : d[i][1] = key

dict_get(d, key) == d[CHOOSE i \in 1..Len(d) : d[i][1] = key][2]

dict_set(d, key, value) ==
    IF dict_has(d, key)
    THEN [i \in 1..Len(d) |-> IF d[i][1] = key THEN <<key, value>> ELSE d[i]]
    ELSE Append(d, <<key, value>>)

\* All sequences over S of length 0..max
SeqsUpTo(S, max) == UNION {[1..k -> S] : k \in 0..max}

\* All lists of exactly k tuples over S that hold at most total elements together
RECURSIVE TuplesWithTotal(_, _, _)
TuplesWithTotal(S, k, total) ==
    IF k = 0 THEN {<<>>}
    ELSE UNION {{<<first>> \o rest :
                    first \in [1..len -> S], rest \in TuplesWithTotal(S, k - 1, total - len)} :
                len \in 0..total}

\* All lists of at most max tuples over S that hold at most total elements together
ListsOfTuples(S, max, total) == UNION {TuplesWithTotal(S, k, total) : k \in 0..max}

\* Every order in which the elements of a set can be iterated
Listings(S) ==
    {f \in [1..Cardinality(S) -> S] : \A i, j \in 1..Cardinality(S) : f[i] = f[j] => i = j}

\* Every list of tuples that list(map(tuple, cnf)) can produce from a set of frozensets
RECURSIVE TupleLists(_)
TupleLists(clauses) ==
    IF Len(clauses) = 0 THEN {<<>>}
    ELSE {<<first>> \o rest : first \in Listings(clauses[1]), rest \in TupleLists(Tail(clauses))}

ListOfTuples(cnf_set) == UNION {TupleLists(order) : order \in Listings(cnf_set)}

----------------------------------------------------------------------------
\* Exact conversion: from_dnf_with_de_morgan

\* Distribute testing the literal itself instead of its negation
Distribute_tests_literal(clauses, group) ==
    {clause \cup {literal} : <<clause, literal>> \in
        {p \in clauses \X Range(group) : p[2] \notin p[1]}}

\* line 120 and lines 123-124: distribute the group's literals over the clauses
Distribute(clauses, group) ==
    {clause \cup {literal} : <<clause, literal>> \in
        {p \in clauses \X Range(group) : neg(p[2]) \notin p[1]}}

\* line 128: the clauses min(cnf, key=len) may return
MinClauses(clauses) ==
    {c \in clauses : \A d \in clauses : Cardinality(c) <= Cardinality(d)}

\* Prune comparing with >= instead of >, which drops sc itself too
Prune_with_ge(clauses, sc) == {clause \in clauses : ~(sc \subseteq clause)}

\* line 129: drop the strict supersets of sc
Prune(clauses, sc) == {clause \in clauses : ~(sc \subseteq clause /\ sc # clause)}

----------------------------------------------------------------------------
\* Equisatisfiable conversion: from_dnf

\* from_dnf_group without the clauses (neg E, L)
from_dnf_group_no_pairs(group, extension_var) ==
    <<[j \in 1..Len(group) |-> neg(group[j])] \o <<extension_var>>>>

\* from_dnf_group emitting the implication clause before the pairs
from_dnf_group_imply_first(group, extension_var) ==
    <<[j \in 1..Len(group) |-> neg(group[j])] \o <<extension_var>>>>
        \o [j \in 1..Len(group) |-> <<neg(extension_var), group[j]>>]

\* lines 161-170: the clauses of one group
from_dnf_group(group, extension_var) ==
    LET neg_extension_var == neg(extension_var)
        imply_ext_clause == [j \in 1..Len(group) |-> neg(group[j])] \o <<extension_var>>
    IN  [j \in 1..Len(group) |-> <<neg_extension_var, group[j]>>] \o <<imply_ext_clause>>

\* from_dnf_loop minting once and using that variable for every group
RECURSIVE from_dnf_loop_one_var(_, _, _, _, _)
from_dnf_loop_one_var(gs, i, next_index, acc, extension_vars) ==
    IF i > Len(gs)
    THEN [cnf |-> Append(acc, extension_vars),
          next_index |-> next_index + (IF Len(gs) > 0 THEN 1 ELSE 0),
          extension_vars |-> extension_vars]
    ELSE LET extension_var == ext_var_name(next_index)
         IN  from_dnf_loop_one_var(gs, i + 1, next_index,
                                   acc \o from_dnf_group(gs[i], extension_var),
                                   Append(extension_vars, extension_var))

\* lines 157-173; next_index is the value of _NEXT_EXT_INDEX on entry
RECURSIVE from_dnf_loop(_, _, _, _, _)
from_dnf_loop(gs, i, next_index, acc, extension_vars) ==
    IF i > Len(gs)
    THEN [cnf |-> Append(acc, extension_vars),
          next_index |-> next_index,
          extension_vars |-> extension_vars]
    ELSE LET extension_var == ext_var_name(next_index)
         IN  from_dnf_loop(gs, i + 1, next_index + 1,
                           acc \o from_dnf_group(gs[i], extension_var),
                           Append(extension_vars, extension_var))

from_dnf(gs, next_index) == from_dnf_loop(gs, 1, next_index, <<>>, <<>>)

----------------------------------------------------------------------------
\* Variable translator

\* The result of a call: status is "ok" or the name of the exception raised
Ok(v) == [status |-> "ok", value |-> v]
Raised(exception) == [status |-> exception, value |-> <<>>]
NotCalled == [status |-> "none", value |-> <<>>]

RECURSIVE Flatten(_)
Flatten(clauses) ==
    IF Len(clauses) = 0 THEN <<>> ELSE clauses[1] \o Flatten(Tail(clauses))

\* lit2num_loop numbering with len(lit2num) + 1
RECURSIVE lit2num_loop_no_halving(_, _, _)
lit2num_loop_no_halving(literals, i, lit2num) ==
    IF i > Len(literals) THEN Ok(lit2num)
    ELSE LET literal == literals[i]
         IN  IF dict_has(lit2num, literal)
             THEN lit2num_loop_no_halving(literals, i + 1, lit2num)
             ELSE IF Len(literal) = 0 THEN Raised("IndexError")
             ELSE LET var == IF literal[1] = "~" THEN SubSeq(literal, 2, Len(literal))
                             ELSE literal
                      num == Len(lit2num) + 1
                  IN  lit2num_loop_no_halving(literals, i + 1,
                          dict_set(dict_set(lit2num, var, num), <<"~">> \o var, 0 - num))

\* lines 44-51 over the flattened traversal; literal[0] of '' raises IndexError
RECURSIVE lit2num_loop(_, _, _)
lit2num_loop(literals, i, lit2num) ==
    IF i > Len(literals) THEN Ok(lit2num)
    ELSE LET literal == literals[i]
         IN  IF dict_has(lit2num, literal) THEN lit2num_loop(literals, i + 1, lit2num)
             ELSE IF Len(literal) = 0 THEN Raised("IndexError")
             ELSE LET var == IF literal[1] = "~" THEN SubSeq(literal, 2, Len(literal))
                             ELSE literal
                      num == (Len(lit2num) \div 2) + 1
                  IN  lit2num_loop(literals, i + 1,
                          dict_set(dict_set(lit2num, var, num), <<"~">> \o var, 0 - num))

\* line 52: {num: lit for lit, num in lit2num.items()}
RECURSIVE invert_loop(_, _, _)
invert_loop(lit2num, i, num2var) ==
    IF i > Len(lit2num) THEN num2var
    ELSE invert_loop(lit2num, i + 1, dict_set(num2var, lit2num[i][2], lit2num[i][1]))

make_translate(clauses) ==
    LET r == lit2num_loop(Flatten(clauses), 1, <<>>)
    IN  IF r.status = "ok"
        THEN Ok([lit2num |-> r.value, num2var |-> invert_loop(r.value, 1, <<>>)])
        ELSE r

\* line 68: list(dict.fromkeys(cnf))
RECURSIVE fromkeys(_, _)
fromkeys(clauses, seen) ==
    IF Len(clauses) = 0 THEN seen
    ELSE fromkeys(Tail(clauses),
                  IF clauses[1] \in Range(seen) THEN seen ELSE Append(seen, clauses[1]))

translate(clauses, uniq) ==
    LET cs == IF uniq THEN fromkeys(clauses, <<>>) ELSE clauses
        r == make_translate(cs)
    IN  IF r.status = "ok"
        THEN Ok([numbered_cnf |->
                    [c \in 1..Len(cs) |->
                        [j \in 1..Len(cs[c]) |-> dict_get(r.value.lit2num, cs[c][j])]],
                 num2var |-> r.value.num2var])
        ELSE r


----------------------------------------------------------------------------
\* Backend oracle and decoding

Abs(x) == IF x < 0 THEN 0 - x ELSE x

SetMax(S) == IF S = {} THEN 0 ELSE CHOOSE x \in S : \A y \in S : y <= x

\* pycosat.itersolve(numbered_cnf): the total assignments over the variables 1..k
\* that satisfy every clause, each as the list of its k signed variable numbers
Solutions(numbered_cnf) ==
    LET k == SetMax({Abs(x) : x \in Range(Flatten(numbered_cnf))})
    IN  {[v \in 1..k |-> IF v \in true_vars THEN v ELSE 0 - v] : true_vars \in
            {t \in SUBSET (1..k) :
                \A c \in 1..Len(numbered_cnf) :
                    \E j \in 1..Len(numbered_cnf[c]) :
                        LET x == numbered_cnf[c][j]
                        IN  IF x > 0 THEN x \in t ELSE (0 - x) \notin t}}

\* line 77: [num2var[n] for n in solution if include_neg or n > 0]
RECURSIVE decode(_, _, _)
decode(num2var, solution, with_neg) ==
    IF Len(solution) = 0 THEN <<>>
    ELSE LET num == solution[1]
             rest == decode(num2var, Tail(solution), with_neg)
         IN  IF with_neg \/ num > 0 THEN <<dict_get(num2var, num)>> \o rest ELSE rest

\* lines 74-81 with include_neg = False; the order of the list is the backend's
\* enumeration order, so the list is kept as the set of its elements
solve_all(symcnf) ==
    LET t == translate(symcnf, FALSE)
    IN  IF t.status = "ok"
        THEN Ok({decode(t.value.num2var, solution, FALSE) :
                    solution \in Solutions(t.value.numbered_cnf)})
        ELSE t

----------------------------------------------------------------------------
\* The converters applied to one input

Facts == {<<FactNames[i]>> : i \in 1..NumFacts}

Literals == Facts \cup {neg(f) : f \in Facts}

Groups(literals) == ListsOfTuples(literals, MaxGroups, MaxLiterals)

InitMint ==
    /\ _NEXT_EXT_INDEX = 0
    /\ minted = <<>>

\* Parts of the state a specification does not use
IdleDnf ==
    /\ groups = <<>>
    /\ cnf = {{}}
    /\ group_index = 0
    /\ pc = "idle"
    /\ exact = NotCalled
    /\ tseytin = NotCalled
    /\ exact_models = NotCalled
    /\ tseytin_models = NotCalled

IdleSeq == op = "none" /\ calls = 0

IdleThreads == thread_pc = <<>> /\ ext_index = <<>> /\ loaded = <<>>

IdleCard == elements = <<>> /\ n = 0 /\ q_op = "none" /\ q_result = NotCalled

IdleTrans == symbolic_cnf = <<>> /\ uniquify = FALSE /\ translation = NotCalled

IdleNeg == neg_element = <<>> /\ negations = <<>>

IdleAgain == previous = NotCalled

IdleSolve ==
    /\ include_neg = FALSE
    /\ consumer = "none"
    /\ gen_pc = "none"
    /\ backend_left = {}
    /\ backend_log = <<>>
    /\ pulls = 0
    /\ requests = 0
    /\ translations = 0
    /\ yielded = 0
    /\ first_yield = NotCalled
    /\ outcome = NotCalled

InitDnf ==
    /\ groups \in Groups(Literals)
    /\ cnf = {{}}
    /\ group_index = 0
    /\ pc = "fold"
    /\ exact = NotCalled
    /\ tseytin = NotCalled
    /\ exact_models = NotCalled
    /\ tseytin_models = NotCalled
    /\ InitMint
    /\ IdleSeq /\ IdleThreads /\ IdleCard /\ IdleTrans /\ IdleSolve /\ IdleNeg /\ IdleAgain

notDnf == <<seqVars, threadVars, cardVars, transVars, solveVars, negVars, againVars>>

\* lines 119-129: one iteration of the loop; min() of an empty set raises ValueError
Fold ==
    /\ pc = "fold"
    /\ group_index < Len(groups)
    /\ LET product == Distribute(cnf, groups[group_index + 1])
       IN  IF product = {}
           THEN /\ cnf' = product
                /\ pc' = "raised"
                /\ exact' = Raised("ValueError")
           ELSE /\ \E sc \in MinClauses(product) : cnf' = Prune(product, sc)
                /\ pc' = pc
                /\ exact' = exact
    /\ group_index' = group_index + 1
    /\ UNCHANGED <<groups, tseytin, exact_models, tseytin_models, mintVars, notDnf>>

\* line 130: the list is kept as the set of frozensets it enumerates
Return ==
    /\ pc = "fold"
    /\ group_index = Len(groups)
    /\ pc' = "done"
    /\ exact' = Ok(cnf)
    /\ UNCHANGED <<groups, cnf, group_index, tseytin, exact_models, tseytin_models, mintVars, notDnf>>

\* from_dnf is called once from_dnf_with_de_morgan has ended and its CNF, if
\* any, has been solved
FromDnf ==
    /\ pc \in {"done", "raised"}
    /\ exact.status = "ok" => exact_models.status = "ok"
    /\ tseytin.status = "none"
    /\ LET r == from_dnf(groups, _NEXT_EXT_INDEX)
       IN  /\ tseytin' = Ok(r.cnf)
           /\ _NEXT_EXT_INDEX' = r.next_index
           /\ minted' = minted \o r.extension_vars
    /\ UNCHANGED <<groups, cnf, group_index, pc, exact, exact_models, tseytin_models, notDnf>>

SolveExact ==
    /\ exact.status = "ok"
    /\ exact_models.status = "none"
    /\ \E symcnf \in ListOfTuples(exact.value) : exact_models' = solve_all(symcnf)
    /\ UNCHANGED <<groups, cnf, group_index, pc, exact, tseytin, tseytin_models, mintVars, notDnf>>

SolveTseytin ==
    /\ tseytin.status = "ok"
    /\ tseytin_models.status = "none"
    /\ tseytin_models' = solve_all(tseytin.value)
    /\ UNCHANGED <<groups, cnf, group_index, pc, exact, tseytin, exact_models, mintVars, notDnf>>

NextDnf == Fold \/ Return \/ FromDnf \/ SolveExact \/ SolveTseytin

SpecDnf == InitDnf /\ [][NextDnf]_vars


----------------------------------------------------------------------------
\* Truth of formulas under an assignment (the set of variables that are true)

IsNegated(literal) == Len(literal) > 0 /\ literal[1] = "~"

VarOf(literal) == IF IsNegated(literal) THEN Tail(literal) ELSE literal

Complement(literal) == IF IsNegated(literal) THEN Tail(literal) ELSE <<"~">> \o literal

Holds(literal, assignment) ==
    IF IsNegated(literal) THEN Tail(literal) \notin assignment ELSE literal \in assignment

\* a disjunction of conjunctions, given as a list of lists
DnfHolds(gs, assignment) ==
    \E i \in 1..Len(gs) : \A j \in 1..Len(gs[i]) : Holds(gs[i][j], assignment)

\* a conjunction of disjunctions, given as a set of sets
ClauseSetHolds(clauses, assignment) ==
    \A clause \in clauses : \E literal \in clause : Holds(literal, assignment)

\* a conjunction of disjunctions, given as a list of lists
CnfHolds(clauses, assignment) ==
    \A c \in 1..Len(clauses) : \E j \in 1..Len(clauses[c]) : Holds(clauses[c][j], assignment)

GroupLiterals(gs) == UNION {Range(gs[i]) : i \in 1..Len(gs)}

----------------------------------------------------------------------------
\* C1: whatever the groups (complementary literals, empty groups and the empty
\* list included), from_dnf_with_de_morgan returns a CNF that mentions only
\* literals of the input and holds under exactly the assignments under which the
\* disjunction of the groups holds.
ExactIsEquivalent ==
    pc \in {"done", "raised"} =>
        /\ exact.status = "ok"
        /\ UNION exact.value \subseteq GroupLiterals(groups)
        /\ \A assignment \in SUBSET Facts :
               ClauseSetHolds(exact.value, assignment) <=> DnfHolds(groups, assignment)

----------------------------------------------------------------------------
\* C2: an assignment of the user variables makes some group entirely true iff
\* some assignment of the extension variables minted by the call extends it to
\* a model of from_dnf(groups).
TseytinEquisatisfiable ==
    tseytin.status = "ok" =>
        \A assignment \in SUBSET Facts :
            DnfHolds(groups, assignment) <=>
                \E extension \in SUBSET Range(minted) :
                    CnfHolds(tseytin.value, assignment \cup extension)

\* from_dnf has converted two groups, one that some assignment satisfies and
\* one that none does; some assignments satisfy the groups and some do not
TseytinEquisatisfiableWitness ==
    /\ tseytin.status = "ok"
    /\ Len(groups) = 2
    /\ \E i \in 1..2 : \A assignment \in SUBSET Facts : ~DnfHolds(<<groups[i]>>, assignment)
    /\ \E assignment \in SUBSET Facts : DnfHolds(groups, assignment)
    /\ \E assignment \in SUBSET Facts : ~DnfHolds(groups, assignment)

----------------------------------------------------------------------------
\* C3 as stated: for every input, the fact sets of the models of the exact CNF
\* equal the fact sets of the models of the Tseytin CNF once the extension
\* variables are removed.
FactSet(model) == {fact \in Range(model) : ~is_ext_var(fact)}

SolveAllAgrees ==
    (exact_models.status = "ok" /\ tseytin_models.status = "ok") =>
        {FactSet(m) : m \in exact_models.value} = {FactSet(m) : m \in tseytin_models.value}

\* C3 amended: the two agree whenever every variable of the groups occurs in
\* the CNF that from_dnf_with_de_morgan returned.
SolveAllAgreesOnFullCnf ==
    (/\ exact_models.status = "ok"
     /\ tseytin_models.status = "ok"
     /\ {VarOf(l) : l \in UNION exact.value} = {VarOf(l) : l \in GroupLiterals(groups)}) =>
        {FactSet(m) : m \in exact_models.value} = {FactSet(m) : m \in tseytin_models.value}

\* both CNFs of two groups over two variables were solved, the exact one
\* mentions both variables, and there are at least two models
SolveAllAgreesWitness ==
    /\ exact_models.status = "ok"
    /\ tseytin_models.status = "ok"
    /\ Len(groups) = 2
    /\ {VarOf(l) : l \in UNION exact.value} = {VarOf(l) : l \in GroupLiterals(groups)}
    /\ Cardinality({VarOf(l) : l \in GroupLiterals(groups)}) = 2
    /\ Cardinality({FactSet(m) : m \in exact_models.value}) >= 2

----------------------------------------------------------------------------
\* C4: from_dnf returns, group by group, one clause (neg Ei, L) per literal L
\* and then (neg L1, ..., neg Lm, Ei), and last the clause (E1, ..., Ek), where
\* the Ei are k distinct extension variables: sum(|gi| + 1) + 1 clauses in all.
RECURSIVE Offset(_, _)
Offset(gs, i) == IF i <= 1 THEN 0 ELSE Offset(gs, i - 1) + Len(gs[i - 1]) + 1

TseytinShape ==
    tseytin.status = "ok" =>
        LET out == tseytin.value
            k == Len(groups)
            E == out[Len(out)]
        IN  /\ Len(out) = Offset(groups, k + 1) + 1
            /\ Len(E) = k
            /\ \A i \in 1..k : is_ext_var(E[i]) /\ ~IsNegated(E[i])
            /\ \A i, j \in 1..k : E[i] = E[j] => i = j
            /\ _NEXT_EXT_INDEX = k
            /\ \A i \in 1..k :
                   LET g == groups[i]
                       at == Offset(groups, i)
                   IN  /\ \A p \in 1..Len(g) : out[at + p] = <<<<"~">> \o E[i], g[p]>>
                       /\ out[at + Len(g) + 1] =
                              [p \in 1..Len(g) + 1 |->
                                  IF p <= Len(g) THEN Complement(g[p]) ELSE E[i]]

\* from_dnf has converted an empty group followed by a group of two literals
TseytinShapeWitness ==
    /\ tseytin.status = "ok"
    /\ Len(groups) = 2
    /\ Len(groups[1]) = 0
    /\ Len(groups[2]) = 2
    /\ tseytin.value[1] = <<tseytin.value[Len(tseytin.value)][1]>>


----------------------------------------------------------------------------
\* Cardinality builder: class Q and the helpers built on it

MaxElements == 3

\* itertools.combinations(items, r): the r-subsequences in lexicographic index
\* order; a negative r raises ValueError
RECURSIVE combinations_list(_, _)
combinations_list(items, r) ==
    IF r = 0 THEN <<<<>>>>
    ELSE IF Len(items) < r THEN <<>>
    ELSE LET with_first == combinations_list(Tail(items), r - 1)
         IN  [i \in 1..Len(with_first) |-> <<items[1]>> \o with_first[i]]
                 \o combinations_list(Tail(items), r)

combinations(items, r) ==
    IF r < 0 THEN Raised("ValueError") ELSE Ok(combinations_list(items, r))

\* line 196
__lt__(self, num) == combinations([i \in 1..Len(self) |-> neg(self[i])], num)

\* __le__ forgetting the + 1
__le___off_by_one(self, num) == __lt__(self, num)

\* line 199
__le__(self, num) == __lt__(self, num + 1)

\* line 213
__gt__(self, num) == combinations(self, Len(self) - num)

\* line 216
__ge__(self, num) == __gt__(self, num - 1)

\* line 219: the left operand of + is evaluated first
__eq__(self, num) ==
    LET le == __le__(self, num)
        ge == __ge__(self, num)
    IN  IF le.status # "ok" THEN le
        ELSE IF ge.status # "ok" THEN ge
        ELSE Ok(le.value \o ge.value)

all_of(items) == __eq__(items, Len(items))

some_of(items) == __ge__(items, 1)

one_of(items) == __eq__(items, 1)

basic_fact(element) == __eq__(<<element>>, 1)

none_of(items) == __eq__(items, 0)

CardFacts == {<<FactNames[i]>> : i \in 1..MaxElements}

\* lists of pairwise distinct positive facts
ElementLists ==
    {l \in SeqsUpTo(CardFacts, MaxElements) : \A i, j \in 1..Len(l) : l[i] = l[j] => i = j}

InitCard ==
    /\ elements \in ElementLists
    /\ n \in -1..(Len(elements) + 1)
    /\ q_op = "none"
    /\ q_result = NotCalled
    /\ InitMint
    /\ IdleDnf /\ IdleSeq /\ IdleThreads /\ IdleTrans /\ IdleSolve /\ IdleNeg /\ IdleAgain

notCard == <<dnfVars, mintVars, seqVars, threadVars, transVars, solveVars, negVars, againVars>>

Apply(name, result) ==
    /\ q_op = "none"
    /\ q_op' = name
    /\ q_result' = result
    /\ UNCHANGED <<elements, n, notCard>>

Lt == Apply("<", __lt__(elements, n))
Le == Apply("<=", __le__(elements, n))
Gt == Apply(">", __gt__(elements, n))
Ge == Apply(">=", __ge__(elements, n))
Eq == Apply("==", __eq__(elements, n))
AllOf == Apply("all_of", all_of(elements))
SomeOf == Apply("some_of", some_of(elements))
OneOf == Apply("one_of", one_of(elements))
NoneOf == Apply("none_of", none_of(elements))
BasicFact == Len(elements) > 0 /\ Apply("basic_fact", basic_fact(elements[1]))

NextCard == Lt \/ Le \/ Gt \/ Ge \/ Eq \/ AllOf \/ SomeOf \/ OneOf \/ NoneOf \/ BasicFact

SpecCard == InitCard /\ [][NextCard]_vars

----------------------------------------------------------------------------
\* C5: for pairwise distinct positive facts and 0 <= n <= m each comparison
\* returns a CNF that holds under exactly the assignments over the facts whose
\* number of true facts is < n, <= n, > n, >= n, = n; one_of has m models,
\* all_of and none_of have one.
CardModels(clauses, facts) ==
    {assignment \in SUBSET facts : CnfHolds(clauses, assignment)}

CardinalityMeaning ==
    LET L == Range(elements)
        m == Len(elements)
        WithCount(P(_)) == {assignment \in SUBSET L : P(Cardinality(assignment))}
        lt(c) == c < n
        le(c) == c <= n
        gt(c) == c > n
        ge(c) == c >= n
        eq(c) == c = n
        models == CardModels(q_result.value, L)
    IN  /\ (q_op \in {"<", "<=", ">", ">=", "=="} /\ 0 <= n /\ n <= m) =>
               /\ q_result.status = "ok"
               /\ q_op = "<" => models = WithCount(lt)
               /\ q_op = "<=" => models = WithCount(le)
               /\ q_op = ">" => models = WithCount(gt)
               /\ q_op = ">=" => models = WithCount(ge)
               /\ q_op = "==" => models = WithCount(eq)
        /\ q_op \in {"all_of", "some_of", "one_of", "none_of"} => q_result.status = "ok"
        /\ q_op = "one_of" => Cardinality(models) = m
        /\ q_op = "all_of" => models = {L}
        /\ q_op = "none_of" => models = {{}}

\* Q(L) <= n was built for three facts and a bound strictly inside 0..m, and
\* some but not all assignments satisfy it
CardinalityMeaningWitness ==
    /\ q_op = "<="
    /\ Len(elements) = 3
    /\ n = 1
    /\ q_result.status = "ok"
    /\ Cardinality(CardModels(q_result.value, Range(elements))) = 4


----------------------------------------------------------------------------
\* Threads calling ext_var concurrently; nothing in ext_var excludes another
\* thread between the read of line 27 and the read and the write of line 28

NumThreads == 2
MaxThreadCalls == 4

Threads == 1..NumThreads

InitThreads ==
    /\ InitMint
    /\ thread_pc = [t \in Threads |-> "idle"]
    /\ ext_index = [t \in Threads |-> 0]
    /\ loaded = [t \in Threads |-> 0]
    /\ op = "none"
    /\ calls = 0
    /\ IdleDnf /\ IdleCard /\ IdleTrans /\ IdleSolve /\ IdleNeg /\ IdleAgain

notThreads == <<dnfVars, cardVars, transVars, solveVars, negVars, againVars>>

\* line 27: ext_index = _NEXT_EXT_INDEX
ExtVarRead(t) ==
    /\ thread_pc[t] = "idle"
    /\ calls < MaxThreadCalls
    /\ ext_index' = [ext_index EXCEPT ![t] = _NEXT_EXT_INDEX]
    /\ thread_pc' = [thread_pc EXCEPT ![t] = "line 28 load"]
    /\ calls' = calls + 1
    /\ op' = "ext_var"
    /\ UNCHANGED <<loaded, mintVars, notThreads>>

\* line 28, _NEXT_EXT_INDEX += 1: the read
ExtVarLoad(t) ==
    /\ thread_pc[t] = "line 28 load"
    /\ loaded' = [loaded EXCEPT ![t] = _NEXT_EXT_INDEX]
    /\ thread_pc' = [thread_pc EXCEPT ![t] = "line 28 store"]
    /\ UNCHANGED <<ext_index, mintVars, seqVars, notThreads>>

\* line 28, _NEXT_EXT_INDEX += 1: the write; line 30: the name is returned
ExtVarStore(t) ==
    /\ thread_pc[t] = "line 28 store"
    /\ _NEXT_EXT_INDEX' = loaded[t] + 1
    /\ minted' = Append(minted, ext_var_name(ext_index[t]))
    /\ thread_pc' = [thread_pc EXCEPT ![t] = "idle"]
    /\ UNCHANGED <<ext_index, loaded, seqVars, notThreads>>

NextThreads == \E t \in Threads : ExtVarRead(t) \/ ExtVarLoad(t) \/ ExtVarStore(t)

SpecThreads == InitThreads /\ [][NextThreads]_vars

----------------------------------------------------------------------------
\* C6: under every interleaving of the threads' reads and writes of
\* _NEXT_EXT_INDEX, no two calls of ext_var return the same name.
MintingRaceFree ==
    \A i, j \in 1..Len(minted) : minted[i] = minted[j] => i = j

----------------------------------------------------------------------------
\* One thread calling ext_var, from_dnf and from_dnf_with_de_morgan in any order

MaxCalls == 5
MaxSeqGroups == 3

SeqGroups == SeqsUpTo({<<>>, <<<<"A">>, <<"~", "B">>>>}, MaxSeqGroups)

InitSeq ==
    /\ InitMint
    /\ op = "none"
    /\ calls = 0
    /\ IdleDnf /\ IdleThreads /\ IdleCard /\ IdleTrans /\ IdleSolve /\ IdleNeg /\ IdleAgain

\* lines 25-30
CallExtVar ==
    /\ pc # "fold"
    /\ calls < MaxCalls
    /\ minted' = Append(minted, ext_var_name(_NEXT_EXT_INDEX))
    /\ _NEXT_EXT_INDEX' = _NEXT_EXT_INDEX + 1
    /\ op' = "ext_var"
    /\ calls' = calls + 1
    /\ UNCHANGED <<dnfVars, threadVars, negVars, againVars, cardVars, transVars, solveVars>>

\* lines 133-173
CallFromDnf(gs) ==
    /\ pc # "fold"
    /\ calls < MaxCalls
    /\ LET r == from_dnf(gs, _NEXT_EXT_INDEX)
       IN  /\ tseytin' = Ok(r.cnf)
           /\ _NEXT_EXT_INDEX' = r.next_index
           /\ minted' = minted \o r.extension_vars
    /\ groups' = gs
    /\ pc' = "idle"
    /\ cnf' = {{}}
    /\ group_index' = 0
    /\ exact' = NotCalled
    /\ op' = "from_dnf"
    /\ calls' = calls + 1
    /\ UNCHANGED <<exact_models, tseytin_models, threadVars, negVars, againVars, cardVars, transVars, solveVars>>

\* line 118: from_dnf_with_de_morgan is entered; Fold and Return run it
CallFromDnfWithDeMorgan(gs) ==
    /\ pc # "fold"
    /\ calls < MaxCalls
    /\ groups' = gs
    /\ pc' = "fold"
    /\ cnf' = {{}}
    /\ group_index' = 0
    /\ exact' = NotCalled
    /\ tseytin' = NotCalled
    /\ op' = "from_dnf_with_de_morgan"
    /\ calls' = calls + 1
    /\ UNCHANGED <<exact_models, tseytin_models, mintVars, threadVars, negVars, againVars, cardVars, transVars,
                   solveVars>>

NextSeq ==
    \/ CallExtVar
    \/ \E gs \in SeqGroups : CallFromDnf(gs)
    \/ \E gs \in SeqGroups : CallFromDnfWithDeMorgan(gs)
    \/ Fold
    \/ Return

SpecSeq == InitSeq /\ [][NextSeq]_vars

----------------------------------------------------------------------------
\* C7: the i-th name minted in the process (from 0) is '<i>___'; a from_dnf call
\* with k groups advances the counter by k and gives its groups the k next
\* names in order; no other operation changes the counter; the counter never
\* goes back and no name is minted twice.
DigitValue(d) == (CHOOSE i \in 1..10 : Digits[i] = d) - 1

RECURSIVE DecimalValue(_)
DecimalValue(digits) ==
    IF Len(digits) = 0 THEN 0
    ELSE 10 * DecimalValue(SubSeq(digits, 1, Len(digits) - 1)) + DigitValue(digits[Len(digits)])

\* name is the decimal numeral of index, without leading zeros, followed by ___
IsNameOf(name, index) ==
    /\ Len(name) > 3
    /\ SubSeq(name, Len(name) - 2, Len(name)) = <<"_", "_", "_">>
    /\ LET digits == SubSeq(name, 1, Len(name) - 3)
       IN  /\ \A i \in 1..Len(digits) : digits[i] \in Range(Digits)
           /\ Len(digits) > 1 => digits[1] # "0"
           /\ DecimalValue(digits) = index

NamesAreIndexed ==
    /\ Len(minted) = _NEXT_EXT_INDEX
    /\ \A i \in 1..Len(minted) : IsNameOf(minted[i], i - 1)
    /\ \A i, j \in 1..Len(minted) : minted[i] = minted[j] => i = j

CounterStep ==
    /\ _NEXT_EXT_INDEX' >= _NEXT_EXT_INDEX
    /\ SubSeq(minted', 1, Len(minted)) = minted
    /\ (calls' = calls + 1 /\ op' = "ext_var") => _NEXT_EXT_INDEX' = _NEXT_EXT_INDEX + 1
    /\ (calls' = calls + 1 /\ op' = "from_dnf") =>
           LET k == Len(groups')
               out == tseytin'.value
           IN  /\ _NEXT_EXT_INDEX' = _NEXT_EXT_INDEX + k
               /\ out[Len(out)] = [i \in 1..k |-> minted'[_NEXT_EXT_INDEX + i]]
               /\ \A i \in 1..k :
                      LET imply == out[Offset(groups', i + 1)]
                      IN  imply[Len(imply)] = minted'[_NEXT_EXT_INDEX + i]
    /\ (calls' = calls \/ op' = "from_dnf_with_de_morgan") => _NEXT_EXT_INDEX' = _NEXT_EXT_INDEX

CounterIsMonotonic == []NamesAreIndexed /\ [][CounterStep]_vars

\* five calls were made and more than eleven names minted, the last three by
\* one from_dnf call
CounterIsMonotonicWitness ==
    /\ op = "from_dnf"
    /\ Len(groups) = 3
    /\ _NEXT_EXT_INDEX > 11
    /\ calls = MaxCalls


----------------------------------------------------------------------------
\* translate applied to one symbolic CNF

MaxClauses == 2
MaxTranslateLiterals == 3

SymbolicCnfs(literals) == ListsOfTuples(literals, MaxClauses, MaxTranslateLiterals)

InitTranslate ==
    /\ symbolic_cnf \in SymbolicCnfs(Literals)
    /\ uniquify \in BOOLEAN
    /\ translation = NotCalled
    /\ InitMint
    /\ IdleDnf /\ IdleSeq /\ IdleThreads /\ IdleCard /\ IdleSolve /\ IdleNeg /\ IdleAgain

\* lines 56-71
Translate ==
    /\ translation.status = "none"
    /\ translation' = translate(symbolic_cnf, uniquify)
    /\ UNCHANGED <<symbolic_cnf, uniquify, dnfVars, mintVars, seqVars, threadVars, negVars, againVars, cardVars,
                   solveVars>>

NextTranslate == Translate

SpecTranslate == InitTranslate /\ [][NextTranslate]_vars

----------------------------------------------------------------------------
\* C8: translate (without uniquify) numbers the k variables that occur 1..k in
\* order of first occurrence, gives a literal and its negation opposite
\* numbers, keeps the clause count and the literal positions, and returns a
\* reverse map with exactly the keys 1..k and -1..-k that sends every numbered
\* literal back to the literal it came from and its opposite to the negation.
\* The literals are facts that do not begin with '~', plain or negated.
RECURSIVE FirstOccurrences(_, _)
FirstOccurrences(literals, seen) ==
    IF Len(literals) = 0 THEN seen
    ELSE FirstOccurrences(Tail(literals),
            IF VarOf(literals[1]) \in Range(seen) THEN seen
            ELSE Append(seen, VarOf(literals[1])))

----------------------------------------------------------------------------
\* The solve facade: the generator itersolve and its consumers

MaxPulls == 3
MaxSolveLiterals == 2

SolveCnfs(literals) == ListsOfTuples(literals, MaxClauses, MaxSolveLiterals)

\* a CNF with the literal '', which translate cannot take the first character of
MalformedCnf == <<<<<<>>>>>>

Answer(kind, solution) == [kind |-> kind, solution |-> solution]

\* ResumeOutcomes draining the backend on the first next(), as
\* "for solution in list(pycosat.itersolve(numbered_cnf))" would
ResumeOutcomesEager ==
    IF gen_pc = "finished"
    THEN {[gen_pc |-> "finished", translation |-> translation, left |-> backend_left,
           answers |-> <<>>, translated |-> 0, got |-> Raised("StopIteration")]}
    ELSE LET t == translate(symbolic_cnf, FALSE)
         IN  IF t.status # "ok"
             THEN {[gen_pc |-> "finished", translation |-> t, left |-> {},
                    answers |-> <<>>, translated |-> 1, got |-> t]}
             ELSE {[gen_pc |-> "finished", translation |-> t, left |-> {},
                    answers |-> [i \in 1..Len(order) + 1 |->
                                    IF i <= Len(order) THEN Answer("model", order[i])
                                    ELSE Answer("end", <<>>)],
                    translated |-> 1,
                    got |-> IF Len(order) = 0 THEN Raised("StopIteration")
                            ELSE Ok(decode(t.value.num2var, order[1], include_neg))] :
                        order \in Listings(Solutions(t.value.numbered_cnf))}

\* What one next() on the generator can do (lines 75-77): on the first one the
\* CNF is translated and the backend iterator created; then the backend is asked
\* for one solution, which it produces, or reports that there is none left, or
\* fails. A finished generator raises StopIteration at once.
ResumeOutcomes ==
    IF gen_pc = "finished"
    THEN {[gen_pc |-> "finished", translation |-> translation, left |-> backend_left,
           answers |-> <<>>, translated |-> 0, got |-> Raised("StopIteration")]}
    ELSE LET first == gen_pc = "created"
             t == IF first THEN translate(symbolic_cnf, FALSE) ELSE translation
             translated == IF first THEN 1 ELSE 0
         IN  IF t.status # "ok"
             THEN {[gen_pc |-> "finished", translation |-> t, left |-> {},
                    answers |-> <<>>, translated |-> translated, got |-> t]}
             ELSE LET left == IF first THEN Solutions(t.value.numbered_cnf) ELSE backend_left
                  IN  {[gen_pc |-> "suspended", translation |-> t, left |-> left \ {solution},
                        answers |-> <<Answer("model", solution)>>, translated |-> translated,
                        got |-> Ok(decode(t.value.num2var, solution, include_neg))] :
                            solution \in left}
                      \cup
                      (IF left = {}
                       THEN {[gen_pc |-> "finished", translation |-> t, left |-> left,
                              answers |-> <<Answer("end", <<>>)>>, translated |-> translated,
                              got |-> Raised("StopIteration")]}
                       ELSE {})
                      \cup
                      {[gen_pc |-> "finished", translation |-> t, left |-> left,
                        answers |-> <<Answer("fault", <<>>)>>, translated |-> translated,
                        got |-> Raised("BackendError")]}

Resume(r) ==
    /\ gen_pc' = r.gen_pc
    /\ translation' = r.translation
    /\ backend_left' = r.left
    /\ backend_log' = IF pulls = 0 THEN r.answers ELSE backend_log
    /\ pulls' = pulls + 1
    /\ requests' = requests + Len(r.answers)
    /\ translations' = translations + r.translated
    /\ yielded' = IF r.got.status = "ok" THEN yielded + 1 ELSE yielded
    /\ first_yield' = IF r.got.status = "ok" /\ yielded = 0 THEN r.got ELSE first_yield
    /\ UNCHANGED <<symbolic_cnf, uniquify, include_neg, consumer>>
    /\ UNCHANGED <<dnfVars, mintVars, seqVars, threadVars, negVars, againVars, cardVars>>

InitSolve ==
    /\ symbolic_cnf \in SolveCnfs(Literals) \cup {MalformedCnf}
    /\ uniquify = FALSE
    /\ translation = NotCalled
    /\ include_neg \in BOOLEAN
    /\ consumer \in {"solve_one", "solve_all", "itersolve"}
    /\ gen_pc = "created"
    /\ backend_left = {}
    /\ backend_log = <<>>
    /\ pulls = 0
    /\ requests = 0
    /\ translations = 0
    /\ yielded = 0
    /\ first_yield = NotCalled
    /\ outcome = NotCalled
    /\ InitMint
    /\ IdleDnf /\ IdleSeq /\ IdleThreads /\ IdleCard /\ IdleNeg /\ IdleAgain

\* line 85: next(itersolve(...)) with a default, so that exhaustion returns []
SolveOneWithDefault ==
    /\ consumer = "solve_one"
    /\ outcome.status = "none"
    /\ \E r \in ResumeOutcomes :
           /\ Resume(r)
           /\ outcome' = IF r.got.status = "StopIteration" THEN Ok(<<>>) ELSE r.got

\* line 85: next(itersolve(...))
SolveOne ==
    /\ consumer = "solve_one"
    /\ outcome.status = "none"
    /\ \E r \in ResumeOutcomes :
           /\ Resume(r)
           /\ outcome' = r.got

\* line 81: list(itersolve(...)) pulls until the generator is exhausted; the
\* list, in the backend's order, is kept as the set of its elements
SolveAll ==
    /\ consumer = "solve_all"
    /\ outcome.status = "none"
    /\ \E r \in ResumeOutcomes :
           /\ Resume(r)
           /\ outcome' = IF r.got.status = "ok" THEN outcome
                         ELSE IF r.got.status = "StopIteration" THEN solve_all(symbolic_cnf)
                         ELSE r.got

\* a caller of itersolve asks for the next model
IterNext ==
    /\ consumer = "itersolve"
    /\ gen_pc # "closed"
    /\ pulls < MaxPulls
    /\ \E r \in ResumeOutcomes :
           /\ Resume(r)
           /\ outcome' = r.got

\* a caller of itersolve stops pulling and drops the generator
Abandon ==
    /\ consumer = "itersolve"
    /\ gen_pc \in {"created", "suspended"}
    /\ gen_pc' = "closed"
    /\ UNCHANGED <<symbolic_cnf, uniquify, translation, include_neg, consumer, backend_left,
                   backend_log, pulls, requests, translations, yielded, first_yield,
                   outcome>>
    /\ UNCHANGED <<dnfVars, mintVars, seqVars, threadVars, negVars, againVars, cardVars>>

NextSolve == SolveOne \/ SolveAll \/ IterNext \/ Abandon

SpecSolve == InitSolve /\ [][NextSolve]_vars


----------------------------------------------------------------------------
\* C9: solve_one returns what the generator yields first, the decoding of the
\* first solution of the backend; when the backend reports that there is no
\* solution it raises a condition (StopIteration) that it raises in no other
\* case: a translation fault and a backend fault surface as other conditions.
SolveOneOutcome ==
    (consumer = "solve_one" /\ outcome.status # "none") =>
        LET t == translate(symbolic_cnf, FALSE)
        IN  /\ pulls = 1
            /\ t.status # "ok" => (outcome.status = "IndexError" /\ backend_log = <<>>)
            /\ t.status = "ok" =>
                   /\ Len(backend_log) = 1
                   /\ backend_log[1].kind = "model" =>
                          /\ backend_log[1].solution \in Solutions(t.value.numbered_cnf)
                          /\ first_yield = Ok(decode(t.value.num2var, backend_log[1].solution,
                                                   include_neg))
                          /\ outcome = first_yield
                   /\ backend_log[1].kind = "fault" => outcome.status = "BackendError"
                   /\ backend_log[1].kind = "end" =>
                          /\ Solutions(t.value.numbered_cnf) = {}
                          /\ outcome.status = "StopIteration"
            /\ outcome.status = "StopIteration" =>
                   /\ t.status = "ok"
                   /\ backend_log = <<Answer("end", <<>>)>>
                   /\ yielded = 0

\* solve_one has failed on an unsatisfiable CNF of two clauses
SolveOneOutcomeWitness ==
    /\ consumer = "solve_one"
    /\ outcome.status = "StopIteration"
    /\ Len(symbolic_cnf) = 2
    /\ Len(symbolic_cnf[1]) > 0
    /\ Len(symbolic_cnf[2]) > 0

----------------------------------------------------------------------------
\* C10: the CNF is translated once, on the first pull; every request to the
\* backend is made inside a pull, one per pull, so requests never exceed pulls;
\* solve_one makes exactly one request; once the consumer has stopped pulling
\* nothing is requested any more.
Stopped ==
    \/ gen_pc = "closed"
    \/ consumer \in {"solve_one", "solve_all"} /\ outcome.status # "none"

LazyState ==
    /\ requests <= pulls
    /\ translations = IF pulls = 0 THEN 0 ELSE 1
    /\ yielded <= requests
    /\ (consumer = "solve_one" /\ outcome.status # "none") =>
           /\ pulls = 1
           /\ translation.status = "ok" => requests = 1

LazyStep ==
    /\ requests' # requests => (pulls' = pulls + 1 /\ requests' = requests + 1)
    /\ translations' # translations => pulls' = pulls + 1
    /\ Stopped => (requests' = requests /\ translations' = translations)

SolveIsLazy == []LazyState /\ [][LazyStep]_vars

\* a caller of itersolve has pulled one model of a CNF that has more, and
\* stopped; one request was made and solutions remain unrequested
SolveIsLazyWitness ==
    /\ consumer = "itersolve"
    /\ gen_pc = "closed"
    /\ pulls = 1
    /\ requests = 1
    /\ yielded = 1
    /\ Cardinality(backend_left) >= 2

----------------------------------------------------------------------------
\* neg applied to a string and again to what it returned

MaxFactLen == 3
MaxNegCalls == 3

\* the characters fact strings are made of: the negation mark and two others
FactChars == {"~", "A", "B"}

\* the non-empty strings of at most MaxFactLen characters
FactStrings == UNION {[1..k -> FactChars] : k \in 1..MaxFactLen}

InitNeg ==
    /\ neg_element \in FactStrings
    /\ negations = <<>>
    /\ previous = NotCalled
    /\ InitMint
    /\ IdleDnf /\ IdleSeq /\ IdleThreads /\ IdleCard /\ IdleTrans /\ IdleSolve

\* line 101, called on the string first and then on what the call before returned
Neg ==
    /\ Len(negations) < MaxNegCalls
    /\ negations' = Append(negations,
                           neg(IF negations = <<>> THEN neg_element
                               ELSE negations[Len(negations)]))
    /\ UNCHANGED <<neg_element, previous, dnfVars, mintVars, seqVars, threadVars, cardVars,
                   transVars, solveVars>>

NextNeg == Neg

SpecNeg == InitNeg /\ [][NextNeg]_vars

----------------------------------------------------------------------------
\* C11: for every non-empty string f, whatever its leading characters, neg(f)
\* differs from f and neg(neg(f)) equals f.
NegIsInvolution ==
    /\ Len(negations) >= 1 => negations[1] # neg_element
    /\ Len(negations) >= 2 => negations[2] = neg_element

----------------------------------------------------------------------------
\* from_dnf_with_de_morgan on groups of pairwise distinct positive facts

NumProductFacts == 4
MaxProductGroups == 3

ProductFacts == {<<FactNames[i]>> : i \in 1..NumProductFacts}

\* the non-empty tuples of distinct elements of S
DistinctTuples(S) ==
    UNION {{t \in [1..k -> S] : \A i, j \in 1..k : t[i] = t[j] => i = j} :
           k \in 1..Cardinality(S)}

\* the lists of k non-empty tuples over S in which no element occurs twice
RECURSIVE DistinctGroups(_, _)
DistinctGroups(S, k) ==
    IF k = 0 THEN {<<>>}
    ELSE UNION {{<<first>> \o rest : rest \in DistinctGroups(S \ Range(first), k - 1)} :
                first \in DistinctTuples(S)}

ProductGroups(facts) == UNION {DistinctGroups(facts, k) : k \in 0..MaxProductGroups}

InitProduct ==
    /\ groups \in ProductGroups(ProductFacts)
    /\ cnf = {{}}
    /\ group_index = 0
    /\ pc = "fold"
    /\ exact = NotCalled
    /\ tseytin = NotCalled
    /\ exact_models = NotCalled
    /\ tseytin_models = NotCalled
    /\ previous = NotCalled
    /\ InitMint
    /\ IdleSeq /\ IdleThreads /\ IdleCard /\ IdleTrans /\ IdleSolve /\ IdleNeg

NextProduct == Fold \/ Return

SpecProduct == InitProduct /\ [][NextProduct]_vars

----------------------------------------------------------------------------
\* C12: for non-empty groups of pairwise distinct positive facts,
\* from_dnf_with_de_morgan returns one clause for every way of choosing one
\* literal from each group and nothing else: product-of-the-group-sizes many
\* clauses, each as wide as there are groups; after each fold the running
\* collection is the product of the groups folded in so far.
RECURSIVE ProductOfSizes(_)
ProductOfSizes(gs) == IF Len(gs) = 0 THEN 1 ELSE Len(gs[1]) * ProductOfSizes(Tail(gs))

\* the sets {l1, ..., lk} with li chosen in the i-th group
Choices(gs) ==
    {Range(choice) : choice \in
        {c \in [1..Len(gs) -> ProductFacts] : \A i \in 1..Len(gs) : c[i] \in Range(gs[i])}}

ExactIsFullProduct ==
    /\ pc # "raised"
    /\ pc = "fold" => cnf = Choices(SubSeq(groups, 1, group_index))
    /\ pc = "done" =>
           /\ exact.status = "ok"
           /\ exact.value = Choices(groups)
           /\ Cardinality(exact.value) = ProductOfSizes(groups)
           /\ \A clause \in exact.value : Cardinality(clause) = Len(groups)

\* two groups of two facts were converted into four clauses
ExactIsFullProductWitness ==
    /\ pc = "done"
    /\ Len(groups) = 2
    /\ Len(groups[1]) = 2
    /\ Len(groups[2]) = 2
    /\ Cardinality(exact.value) = 4

----------------------------------------------------------------------------
\* from_dnf_with_de_morgan folding groups that share literals, called and
\* called again on the same groups

NumFoldFacts == 2
MaxFoldGroups == 2
MaxFoldLiterals == 5

FoldFacts == {<<FactNames[i]>> : i \in 1..NumFoldFacts}

FoldLiterals == FoldFacts \cup {neg(f) : f \in FoldFacts}

\* one tuple listing the elements of S; line 120 reads a group only through the
\* dict keyed by its literals, so one tuple stands for all that list the same set
RECURSIVE TupleOf(_)
TupleOf(S) ==
    IF S = {} THEN <<>>
    ELSE LET first == CHOOSE x \in S : TRUE
         IN  <<first>> \o TupleOf(S \ {first})

\* the lists of k groups over S that hold at most total literals together
RECURSIVE GroupsWithTotal(_, _, _)
GroupsWithTotal(S, k, total) ==
    IF k = 0 THEN {<<>>}
    ELSE UNION {{<<TupleOf(first)>> \o rest :
                    rest \in GroupsWithTotal(S, k - 1, total - Cardinality(first))} :
                first \in {g \in SUBSET S : Cardinality(g) <= total}}

FoldGroups(literals) ==
    UNION {GroupsWithTotal(literals, k, MaxFoldLiterals) : k \in 0..MaxFoldGroups}

InitFold ==
    /\ groups \in FoldGroups(FoldLiterals)
    /\ cnf = {{}}
    /\ group_index = 0
    /\ pc = "fold"
    /\ exact = NotCalled
    /\ tseytin = NotCalled
    /\ exact_models = NotCalled
    /\ tseytin_models = NotCalled
    /\ previous = NotCalled
    /\ InitMint
    /\ IdleSeq /\ IdleThreads /\ IdleCard /\ IdleTrans /\ IdleSolve /\ IdleNeg

\* from_dnf_with_de_morgan(groups) is called a second time, where the clause
\* set may be iterated in another order (lines 118-119 start afresh)
CallAgain ==
    /\ pc \in {"done", "raised"}
    /\ previous.status = "none"
    /\ previous' = exact
    /\ cnf' = {{}}
    /\ group_index' = 0
    /\ pc' = "fold"
    /\ exact' = NotCalled
    /\ UNCHANGED <<groups, tseytin, exact_models, tseytin_models, mintVars, seqVars, threadVars,
                   cardVars, transVars, solveVars, negVars>>

NextFold == Fold \/ Return \/ CallAgain

SpecFold == InitFold /\ [][NextFold]_vars

----------------------------------------------------------------------------
\* C13: after each group has been folded in, and so in the returned CNF, the
\* running clause collection holds no clause that is a strict superset of
\* another of its clauses and no clause with both a literal and its negation.
NoTautology == \A clause \in cnf : \A literal \in clause : neg(literal) \notin clause

NoSubsumedClause ==
    \A clause \in cnf : \A other \in cnf : ~(other \subseteq clause /\ other # clause)

SubsumptionEliminated == pc \in {"fold", "done"} => (NoTautology /\ NoSubsumedClause)

----------------------------------------------------------------------------
\* C14: whichever minimal-length clause min(cnf, key=len) picks at each fold,
\* from_dnf_with_de_morgan(groups) returns the same set of clauses: two calls
\* on the same groups end alike.
AnchorIndependent ==
    (previous.status # "none" /\ pc \in {"done", "raised"}) =>
        /\ exact.status = previous.status
        /\ exact.status = "ok" => exact.value = previous.value

====
